---- MODULE Spec2Model ----
(***************************************************************************)
(* Content transfer subsystem of MCS-Backend: chunked upload with instant  *)
(* upload (UploadService, internal/services/statistics_service.go) and     *)
(* batch ZIP download tasks (DownloadService, download_service.go).        *)
(*                                                                         *)
(* Byte strings are sequences of small numbers.  A path is a sequence of  *)
(* components; filepath.Join is concatenation of cleaned relative paths.   *)
(* The file name "<md5>_<name>" is the component <<md5, name>>.            *)
(***************************************************************************)
EXTENDS Integers, Sequences, FiniteSets, TLC

\* ---------------------------------------------------------------- bounds
MaxUploads == 2      \* InitUpload calls made in one behaviour
MaxCalls == 3        \* upload calls begun as separate goroutines in one behaviour
MaxSweeps == 2       \* CleanExpiredTasks calls begun as separate goroutines
MaxTasks == 2        \* CreateBatchDownloadTask calls made in one behaviour

\* ---------------------------------------------------------------- inputs
Users == {1, 2}
ChunkData == {<<1>>, <<2>>}
ChunkIndexes == 0 .. 1           \* 1 is past the last chunk of a one-chunk session

\* ------------------------------------------------------------- pure code
\* md5.Sum / md5.New: a collision-free digest of a byte string, as a number
\* (base-3 positional code of the bytes; distinct strings, distinct digests).
RECURSIVE Md5(_)
Md5(b) == IF b = <<>> THEN 0 ELSE 3 * Md5(SubSeq(b, 1, Len(b) - 1)) + b[Len(b)]

ChunkMd5s == {Md5(d) : d \in ChunkData}

\* InitUploadRequest bodies the clients send (with the caller's user id).
\* ReqA, ReqB: the one-chunk content <<1>> sent by two owners under two names.
\* ReqD: the two-chunk content <<1, 2>>.  ReqE: the fingerprint of ReqA
\* declared with another size, under the name (and so the final path) of ReqA.
Req(u, n, s, h, w) ==
    [UserID |-> u, FileName |-> n, FileSize |-> s, MD5Hash |-> h,
     ChunkSize |-> 1, WorkflowID |-> w]
ReqA == Req(1, "a", 1, Md5(<<1>>), 1)
ReqB == Req(2, "b", 1, Md5(<<1>>), 0)
ReqD == Req(2, "a", 2, Md5(<<1, 2>>), 2)
ReqE == Req(1, "a", 2, Md5(<<1>>), 1)
UploadRequests == {ReqA, ReqB, ReqD, ReqE}

\* filepath.Join of two cleaned relative paths
Join(a, b) == a \o b

\* config.File.UploadPath, TempPath, DownloadPath: the defaults "./uploads",
\* "./temp", "./downloads", cleaned
UploadPath == <<"uploads">>
TempPath == <<"temp">>
DownloadPath == <<"downloads">>

\* values of UPLOAD_PATH: the default and "." (the working directory)
UploadPaths == {UploadPath, <<>>}

Abs(x) == IF x < 0 THEN 0 - x ELSE x

\* Go's integer "/": the quotient truncated toward zero, for either sign
GoDiv(a, b) ==
    IF (a < 0) = (b < 0) THEN Abs(a) \div Abs(b) ELSE 0 - (Abs(a) \div Abs(b))

\* totalChunks := int((req.FileSize + req.ChunkSize - 1) / req.ChunkSize)
TotalChunksOf(fileSize, chunkSize) == GoDiv(fileSize + chunkSize - 1, chunkSize)

\* uploadID := fmt.Sprintf("%d_%s_%d", userID, req.MD5Hash, time.Now().Unix())
UploadIDOf(userID, md5, t) == <<userID, md5, t>>

\* finalPath := filepath.Join(UploadPath, fmt.Sprintf("%s_%s", MD5Hash, FileName))
FinalPathOf(dir, md5, name) == Join(dir, << <<md5, name>> >>)

\* (mutant) the merge loop running from the last chunk down to chunk_0
RECURSIVE MergeChunksDescending(_, _)
MergeChunksDescending(dir, n) ==
    IF n = 0 THEN <<>> ELSE dir[n - 1] \o MergeChunksDescending(dir, n - 1)

\* the merge loop of CompleteUpload: chunk_0 .. chunk_{n-1} appended in turn
RECURSIVE MergeChunks(_, _)
MergeChunks(dir, n) ==
    IF n = 0 THEN <<>> ELSE MergeChunks(dir, n - 1) \o dir[n - 1]

\* (mutant) the chunk checksum is not compared
ChunkMD5Unchecked(chunkData, chunkMD5) == TRUE

\* fmt.Sprintf("%x", md5.Sum(chunkData)) != chunkMD5 rejects the chunk
ChunkMD5Matches(chunkData, chunkMD5) == Md5(chunkData) = chunkMD5

\* ----------------------------------------------------------------- state
VARIABLES
    now,              \* time.Now().Unix()
    uploadSessions,   \* package-level map uploadID -> session
    tempFS,           \* staging directories: tempDir -> (chunk index -> bytes)
    uploadFS,         \* permanent upload store: path -> bytes
    files,            \* table "files": sequence of rows, ID = position
    uploads,          \* number of InitUpload calls so far
    last,             \* the most recent call: operation, key arguments, outcome
    uploadPath,       \* config.File.UploadPath of this deployment
    members,          \* table "workflow_members": pairs <<workflow_id, user_id>>
    tasks,            \* table "download_tasks": sequence of rows, ID = position
    workers,          \* processDownloadTask goroutines: task ID -> locals
    downloadFS,       \* download store: path -> ZIP container
    requests,         \* number of CreateBatchDownloadTask calls so far
    inflight,         \* upload calls between two of their steps: call -> locals
    calls,            \* number of upload calls begun step by step so far
    ended,            \* history: ids whose session a CompleteUpload or
                      \* CancelUpload removed (ids), kept when on is TRUE
    sweeps            \* CleanExpiredTasks calls run step by step: number -> locals

vars == <<now, uploadSessions, tempFS, uploadFS, files, uploads, last,
          uploadPath, members, tasks, workers, downloadFS, requests,
          inflight, calls, ended, sweeps>>

\* what the upload operations never touch
dvars == <<uploadPath, members, tasks, workers, downloadFS, requests,
           inflight, calls, sweeps>>
\* what the download operations never touch
uvars == <<now, uploadPath, members, uploadSessions, tempFS, uploadFS, files,
          uploads, inflight, calls, ended, sweeps>>

Call(op, ok, err, ret) == [op |-> op, ok |-> ok, err |-> err, ret |-> ret]
NoCall == Call("none", TRUE, "", <<>>)

\* what an UploadChunk call was given, recorded next to its outcome: did the
\* supplied checksum equal the digest of the supplied bytes, and did the session
\* already hold exactly these bytes for the index
ChunkCall(ok, err, chunkData, chunkMD5, staged) ==
    Call("UploadChunk", ok, err,
         [sum |-> IF Md5(chunkData) = chunkMD5 THEN "match" ELSE "differ",
          staged |-> staged])

AllUploadIDs == {UploadIDOf(r.UserID, r.MD5Hash, 0) : r \in UploadRequests}

\* the history of ended sessions when none is kept, and when one is begun
NoHistory == [on |-> FALSE, ids |-> {}]
EmptyHistory == [on |-> TRUE, ids |-> {}]

\* the history after the session of uploadID has been removed
Ended(uploadID) ==
    IF ended.on THEN [ended EXCEPT !.ids = @ \cup {uploadID}] ELSE ended

InitService ==
    /\ now = 0
    /\ uploadSessions = <<>>
    /\ tempFS = <<>>
    /\ uploadFS = <<>>
    /\ files = <<>>
    /\ uploads = 0
    /\ last = NoCall
    /\ uploadPath = UploadPath
    /\ members = {}
    /\ tasks = <<>>
    /\ workers = <<>>
    /\ downloadFS = <<>>
    /\ requests = 0
    /\ inflight = <<>>
    /\ calls = 0
    /\ sweeps = <<>>

Init == InitService /\ ended = NoHistory

\* the same service, with the history of ended sessions kept
InitRecording == InitService /\ ended = EmptyHistory

\* map helpers
Put(m, k, v) == [x \in (DOMAIN m) \cup {k} |-> IF x = k THEN v ELSE m[x]]
Drop(m, k) == [x \in (DOMAIN m) \ {k} |-> m[x]]
Min(S) == CHOOSE x \in S : \A y \in S : x <= y

\* (mutant) the chunk file is opened for appending instead of being truncated
WriteChunkAppending(dir, chunkIndex, chunkData) ==
    Put(dir, chunkIndex,
        IF chunkIndex \in DOMAIN dir THEN dir[chunkIndex] \o chunkData
        ELSE chunkData)

\* os.Create(chunk_<index>) truncates, file.Write stores the bytes
WriteChunk(dir, chunkIndex, chunkData) == Put(dir, chunkIndex, chunkData)

\* ------------------------------------------------------ upload operations
\* what the upload operations never touch, the calls in flight apart
fvars == <<uploadPath, members, tasks, workers, downloadFS, requests, calls,
           sweeps>>

\* uploadSessions[uploadID] is assigned or deleted: a call in flight that looked
\* the session up before keeps its *UploadSession, which the registry no longer
\* holds; orphan records what took it out first ("no": still registered)
Detach(uploadID, by) ==
    [c \in DOMAIN inflight |->
        IF inflight[c].session.UploadID = uploadID /\ inflight[c].orphan = "no"
        THEN [inflight[c] EXCEPT !.orphan = by] ELSE inflight[c]]

\* (mutant) the instant-upload lookup compares the fingerprint only
ExistingFilesByHash(md5, size) ==
    {i \in DOMAIN files : files[i].MD5Hash = md5 /\ ~files[i].IsDeleted}

\* db.Where("md5_hash = ? AND file_size = ? AND is_deleted = false")
ExistingFiles(md5, size) ==
    {i \in DOMAIN files : /\ files[i].MD5Hash = md5
                          /\ files[i].FileSize = size
                          /\ ~files[i].IsDeleted}

\* a row of table "files" (models.File), the fields the two services read
FileRow(id, name, path, size, md5, owner, wf) ==
    [ID |-> id, FileName |-> name, FilePath |-> path, FileSize |-> size,
     MD5Hash |-> md5, OwnerID |-> owner, WorkflowID |-> wf, IsDeleted |-> FALSE]

InitUpload(req) ==
    /\ uploads < MaxUploads
    /\ UNCHANGED fvars
    /\ UNCHANGED ended
    /\ uploads' = uploads + 1
    /\ IF ExistingFiles(req.MD5Hash, req.FileSize) # {}
       THEN \* instant upload: copy the first matching row for the caller
            LET existingFile == files[Min(ExistingFiles(req.MD5Hash, req.FileSize))]
                newFile == FileRow(Len(files) + 1, req.FileName,
                                   existingFile.FilePath, existingFile.FileSize,
                                   existingFile.MD5Hash, req.UserID, req.WorkflowID)
            IN /\ files' = Append(files, newFile)
               /\ last' = Call("InitUpload", TRUE, "",
                               [UploadID |-> <<>>, TotalChunks |-> 0,
                                ExistingFile |-> newFile.ID, IsSecUpload |-> TRUE])
               /\ UNCHANGED <<now, uploadSessions, tempFS, uploadFS, inflight>>
       ELSE LET totalChunks == TotalChunksOf(req.FileSize, req.ChunkSize)
                uploadID == UploadIDOf(req.UserID, req.MD5Hash, now)
                tempDir == Join(TempPath, <<uploadID>>)
                session == [UploadID |-> uploadID, FileName |-> req.FileName,
                            FileSize |-> req.FileSize, MD5Hash |-> req.MD5Hash,
                            ChunkSize |-> req.ChunkSize, TotalChunks |-> totalChunks,
                            UploadedChunks |-> {}, UserID |-> req.UserID,
                            WorkflowID |-> req.WorkflowID, TempDir |-> tempDir]
            IN \* os.MkdirAll keeps a directory that is already there
               /\ tempFS' = IF tempDir \in DOMAIN tempFS THEN tempFS
                            ELSE Put(tempFS, tempDir, <<>>)
               /\ uploadSessions' = Put(uploadSessions, uploadID, session)
               /\ inflight' = Detach(uploadID, "init")
               /\ last' = Call("InitUpload", TRUE, "",
                               [UploadID |-> uploadID, TotalChunks |-> totalChunks,
                                ExistingFile |-> 0, IsSecUpload |-> FALSE])
               /\ UNCHANGED <<now, uploadFS, files>>

UploadChunk(uploadID, chunkIndex, chunkData, chunkMD5) ==
    /\ UNCHANGED <<now, uploadFS, files, uploads, ended>>
    /\ UNCHANGED dvars
    /\ IF uploadID \notin DOMAIN uploadSessions
       THEN /\ last' = ChunkCall(FALSE, "no session", chunkData, chunkMD5, "none")
            /\ UNCHANGED <<uploadSessions, tempFS>>
       ELSE
       LET session == uploadSessions[uploadID]
           staged == IF /\ chunkIndex \in session.UploadedChunks
                        /\ tempFS[session.TempDir][chunkIndex] = chunkData
                     THEN "same" ELSE "new"
       IN
       IF ~ChunkMD5Matches(chunkData, chunkMD5)
       THEN /\ last' = ChunkCall(FALSE, "chunk md5", chunkData, chunkMD5, staged)
            /\ UNCHANGED <<uploadSessions, tempFS>>
       ELSE \* the chunk file is written, then the index is marked
            /\ tempFS' = [tempFS EXCEPT ![session.TempDir] =
                              WriteChunk(@, chunkIndex, chunkData)]
            /\ uploadSessions' =
                   [uploadSessions EXCEPT ![uploadID].UploadedChunks =
                        @ \cup {chunkIndex}]
            /\ last' = ChunkCall(TRUE, "", chunkData, chunkMD5, staged)

\* (mutant) a digest mismatch ends the session
SessionsAfterMismatchDropped(uploadID) == Drop(uploadSessions, uploadID)

\* the mismatch return comes before delete(uploadSessions, uploadID): the
\* registry is as it was
SessionsAfterMismatch(uploadID) == uploadSessions

CompleteUpload(uploadID) ==
    /\ UNCHANGED <<now, uploads>>
    /\ UNCHANGED dvars
    /\ IF uploadID \notin DOMAIN uploadSessions
       THEN /\ last' = Call("CompleteUpload", FALSE, "no session", <<>>)
            /\ UNCHANGED <<uploadSessions, tempFS, uploadFS, files, ended>>
       ELSE LET session == uploadSessions[uploadID] IN
       IF \E i \in 0 .. session.TotalChunks - 1 : i \notin session.UploadedChunks
       THEN /\ last' = Call("CompleteUpload", FALSE, "chunk missing", <<>>)
            /\ UNCHANGED <<uploadSessions, tempFS, uploadFS, files, ended>>
       ELSE LET finalPath == FinalPathOf(uploadPath, session.MD5Hash, session.FileName)
                merged == MergeChunks(tempFS[session.TempDir], session.TotalChunks)
            IN
            \* os.Create(finalPath) truncates and the merged bytes are written
            \* before the digest is compared; no error path removes finalPath
            /\ uploadFS' = Put(uploadFS, finalPath, merged)
            /\ IF Md5(merged) # session.MD5Hash
               THEN /\ last' = Call("CompleteUpload", FALSE, "file md5", <<>>)
                    /\ uploadSessions' = SessionsAfterMismatch(uploadID)
                    /\ UNCHANGED <<tempFS, files, ended>>
               ELSE LET file == FileRow(Len(files) + 1, session.FileName, finalPath,
                                        session.FileSize, session.MD5Hash,
                                        session.UserID, session.WorkflowID)
                    IN /\ files' = Append(files, file)
                       /\ tempFS' = Drop(tempFS, session.TempDir)
                       /\ uploadSessions' = Drop(uploadSessions, uploadID)
                       /\ ended' = Ended(uploadID)
                       /\ last' = Call("CompleteUpload", TRUE, "", file.ID)

CancelUpload(uploadID) ==
    /\ UNCHANGED <<now, uploadFS, files, uploads>>
    /\ UNCHANGED fvars
    /\ IF uploadID \notin DOMAIN uploadSessions
       THEN /\ last' = Call("CancelUpload", FALSE, "no session", <<>>)
            /\ UNCHANGED <<uploadSessions, tempFS, inflight, ended>>
       ELSE LET session == uploadSessions[uploadID] IN
            /\ ended' = Ended(uploadID)
            /\ tempFS' = Drop(tempFS, session.TempDir)
            /\ uploadSessions' = Drop(uploadSessions, uploadID)
            /\ inflight' = Detach(uploadID, "cancel")
            /\ last' = Call("CancelUpload", TRUE, "", <<>>)

Next ==
    \/ \E req \in UploadRequests : InitUpload(req)
    \/ \E id \in AllUploadIDs, i \in ChunkIndexes, d \in ChunkData,
          m \in ChunkMd5s : UploadChunk(id, i, d, m)
    \/ \E id \in AllUploadIDs : CompleteUpload(id)
    \/ \E id \in AllUploadIDs : CancelUpload(id)

Spec == Init /\ [][Next]_vars

\* the upload service with the ended sessions remembered
SpecRecording == InitRecording /\ [][Next]_vars

\* ------------------------------------------------- declared sizes at large
\* file_size and chunk_size are int64 fields whose only binding is "required",
\* which refuses the zero value and nothing else
DeclaredSizes == (-3 .. 8) \ {0}
DeclaredChunkSizes == (-3 .. 4) \ {0}
SizedReq(size, chunk) == [ReqA EXCEPT !.FileSize = size, !.ChunkSize = chunk]

NextSizes ==
    \E size \in DeclaredSizes, chunk \in DeclaredChunkSizes :
        InitUpload(SizedReq(size, chunk))

\* InitUpload over the declared sizes and chunk sizes the binding lets through
SpecSizes == Init /\ [][NextSizes]_vars

\* ------------------------------------------- upload calls running together
\* The handlers run as goroutines over the package-level map with no lock.
\* A call in flight holds the *UploadSession it looked up (session), the bytes
\* it carries (data: the chunk of an UploadChunk, the staged bytes a
\* CompleteUpload saw when its completeness check passed) and whether it began
\* while a CompleteUpload of the same session was past that check (late).
\* orphan: what assigned or deleted the registry entry since the lookup.
Flight(op, pc, session, chunkIndex, data, late) ==
    [op |-> op, pc |-> pc, session |-> session, chunkIndex |-> chunkIndex,
     data |-> data, late |-> late, orphan |-> "no"]

\* calls in flight that hold the session registered as uploadID
Holding(uploadID) ==
    {c \in DOMAIN inflight : /\ inflight[c].session.UploadID = uploadID
                             /\ inflight[c].orphan = "no"}

\* the chunks 0 .. n-1 up to the first one whose file cannot be opened
RECURSIVE MergeAvailable(_, _, _)
MergeAvailable(dir, i, n) ==
    IF i >= n \/ i \notin DOMAIN dir THEN <<>>
    ELSE dir[i] \o MergeAvailable(dir, i + 1, n)

\* UploadChunk, lines 1060-1069: the lookup and the chunk checksum (correct)
BeginUploadChunk(uploadID, chunkIndex, chunkData) ==
    /\ calls < MaxCalls
    /\ calls' = calls + 1
    /\ UNCHANGED <<now, uploadSessions, tempFS, uploadFS, files, uploads,
                   uploadPath, members, tasks, workers, downloadFS, requests,
                   ended, sweeps>>
    /\ IF uploadID \notin DOMAIN uploadSessions
       THEN /\ last' = ChunkCall(FALSE, "no session", chunkData, Md5(chunkData),
                                 "none")
            /\ UNCHANGED inflight
       ELSE /\ inflight' =
                   Put(inflight, calls + 1,
                       Flight("UploadChunk", "write", uploadSessions[uploadID],
                              chunkIndex, chunkData,
                              \E c \in Holding(uploadID) :
                                  inflight[c].op = "CompleteUpload"))
            /\ UNCHANGED last

\* UploadChunk, lines 1071-1081: os.Create(chunk_<index>) and file.Write
ChunkWrite(c) ==
    /\ inflight[c].op = "UploadChunk" /\ inflight[c].pc = "write"
    /\ UNCHANGED <<now, uploadSessions, uploadFS, files, uploads, calls,
                   uploadPath, members, tasks, workers, downloadFS, requests,
                   ended, sweeps>>
    /\ LET call == inflight[c]
           dir == call.session.TempDir
       IN IF dir \notin DOMAIN tempFS
          THEN \* the staging directory is gone: os.Create fails
               /\ inflight' = Drop(inflight, c)
               /\ last' = ChunkCall(FALSE, "create chunk", call.data,
                                    Md5(call.data), "none")
               /\ UNCHANGED tempFS
          ELSE /\ tempFS' = [tempFS EXCEPT ![dir] =
                                WriteChunk(@, call.chunkIndex, call.data)]
               /\ inflight' = [inflight EXCEPT ![c].pc = "mark"]
               /\ UNCHANGED last

\* two goroutines about to write session.UploadedChunks of one session
Racing(c) ==
    /\ inflight[c].orphan = "no"
    /\ \E c2 \in Holding(inflight[c].session.UploadID) \ {c} :
          inflight[c2].op = "UploadChunk" /\ inflight[c2].pc = "mark"

\* what an unsynchronized map write can do when another one runs with it: set
\* the key, lose it, or stop the process ("fatal error: concurrent map writes")
MarkOutcomes(c) == IF Racing(c) THEN {"set", "lost", "fatal"} ELSE {"set"}

\* UploadChunk, line 1084: session.UploadedChunks[chunkIndex] = true
ChunkMark(c, outcome) ==
    /\ inflight[c].op = "UploadChunk" /\ inflight[c].pc = "mark"
    /\ outcome \in MarkOutcomes(c)
    /\ UNCHANGED <<now, tempFS, uploadFS, files, uploads, calls,
                   uploadPath, members, tasks, workers, downloadFS, requests,
                   ended, sweeps>>
    /\ LET call == inflight[c]
           id == call.session.UploadID
       IN IF outcome = "fatal"
          THEN \* the process dies with every goroutine and the registry
               /\ uploadSessions' = <<>>
               /\ inflight' = <<>>
               /\ last' = ChunkCall(FALSE, "fatal", call.data, Md5(call.data),
                                    "none")
          ELSE /\ uploadSessions' =
                      IF outcome = "set" /\ call.orphan = "no"
                      THEN [uploadSessions EXCEPT ![id].UploadedChunks =
                               @ \cup {call.chunkIndex}]
                      ELSE uploadSessions
               /\ inflight' = Drop(inflight, c)
               /\ last' = ChunkCall(TRUE, "", call.data, Md5(call.data), "new")

\* CompleteUpload, lines 1091-1101: the lookup and the completeness check
CompleteCheck(uploadID) ==
    /\ calls < MaxCalls
    /\ calls' = calls + 1
    /\ UNCHANGED <<now, uploadSessions, tempFS, uploadFS, files, uploads,
                   uploadPath, members, tasks, workers, downloadFS, requests,
                   ended, sweeps>>
    /\ IF uploadID \notin DOMAIN uploadSessions
       THEN /\ last' = Call("CompleteUpload", FALSE, "no session", <<>>)
            /\ UNCHANGED inflight
       ELSE LET session == uploadSessions[uploadID] IN
       IF \E i \in 0 .. session.TotalChunks - 1 : i \notin session.UploadedChunks
       THEN /\ last' = Call("CompleteUpload", FALSE, "chunk missing", <<>>)
            /\ UNCHANGED inflight
       ELSE /\ inflight' =
                   Put(inflight, calls + 1,
                       Flight("CompleteUpload", "merge", session, 0,
                              MergeAvailable(tempFS[session.TempDir], 0,
                                             session.TotalChunks),
                              FALSE))
            /\ UNCHANGED last

\* CompleteUpload, lines 1103-1139: create the final file, merge the chunk
\* files into it, compare the digest
CompleteMerge(c) ==
    /\ inflight[c].op = "CompleteUpload" /\ inflight[c].pc = "merge"
    /\ UNCHANGED <<now, uploadSessions, tempFS, files, uploads, calls,
                   uploadPath, members, tasks, workers, downloadFS, requests,
                   ended, sweeps>>
    /\ LET session == inflight[c].session
           dir == IF session.TempDir \in DOMAIN tempFS
                  THEN tempFS[session.TempDir] ELSE <<>>
           finalPath == FinalPathOf(uploadPath, session.MD5Hash, session.FileName)
           merged == MergeAvailable(dir, 0, session.TotalChunks)
       IN /\ uploadFS' = Put(uploadFS, finalPath, merged)
          /\ IF \E i \in 0 .. session.TotalChunks - 1 : i \notin DOMAIN dir
             THEN /\ last' = Call("CompleteUpload", FALSE, "open chunk", <<>>)
                  /\ inflight' = Drop(inflight, c)
             ELSE IF Md5(merged) # session.MD5Hash
             THEN /\ last' = Call("CompleteUpload", FALSE, "file md5", <<>>)
                  /\ inflight' = Drop(inflight, c)
             ELSE /\ inflight' = [inflight EXCEPT ![c].pc = "store"]
                  /\ UNCHANGED last

\* CompleteUpload, lines 1141-1183: store the row, remove the staging directory,
\* delete the registry entry
CompleteStore(c) ==
    /\ inflight[c].op = "CompleteUpload" /\ inflight[c].pc = "store"
    /\ UNCHANGED <<now, uploadFS, uploads, calls,
                   uploadPath, members, tasks, workers, downloadFS, requests,
                   sweeps>>
    /\ ended' = Ended(inflight[c].session.UploadID)
    /\ LET session == inflight[c].session
           finalPath == FinalPathOf(uploadPath, session.MD5Hash, session.FileName)
           file == FileRow(Len(files) + 1, session.FileName, finalPath,
                           session.FileSize, session.MD5Hash,
                           session.UserID, session.WorkflowID)
       IN /\ files' = Append(files, file)
          /\ tempFS' = Drop(tempFS, session.TempDir)
          /\ uploadSessions' = Drop(uploadSessions, session.UploadID)
          \* delete(uploadSessions, uploadID) removes whatever the id holds now
          /\ inflight' = Drop(Detach(session.UploadID,
                                     IF inflight[c].orphan = "no"
                                     THEN "complete" ELSE "delete"), c)
          /\ last' = Call("CompleteUpload", TRUE, "", file.ID)

\* the uploads begun while calls interleave: one chunk, and two chunks
ConcRequests == {ReqA, ReqD}

NextConc ==
    \/ \E req \in ConcRequests : InitUpload(req)
    \/ \E id \in AllUploadIDs, i \in ChunkIndexes, d \in ChunkData :
          BeginUploadChunk(id, i, d)
    \/ \E c \in DOMAIN inflight : ChunkWrite(c)
    \/ \E c \in DOMAIN inflight, o \in {"set", "lost", "fatal"} : ChunkMark(c, o)
    \/ \E id \in AllUploadIDs : CompleteCheck(id)
    \/ \E c \in DOMAIN inflight : CompleteMerge(c)
    \/ \E c \in DOMAIN inflight : CompleteStore(c)
    \/ \E id \in AllUploadIDs : CancelUpload(id)

\* the upload service with its calls interleaved step by step
SpecUploadConc == Init /\ [][NextConc]_vars

\* ---------------------------------------------------- download operations
\* BatchDownloadRequest bodies: the three stored files, and one file next to
\* an id that table "files" does not hold
BatchReq(ids) == [TaskName |-> "t", FileIDs |-> ids]
BatchRequests == {BatchReq(<<1, 2, 3>>), BatchReq(<<2, 4>>)}

\* table "workflow_members": user 2 is in workflow 1, user 1 in workflow 2
WorkflowMembers == {<<1, 2>>, <<2, 1>>}

\* expiresAt := time.Now().Add(24 * time.Hour), in seconds
ExpirySeconds == 86400

Range(q) == {q[i] : i \in DOMAIN q}

\* the elements of a set of numbers as a sequence in ascending order
RECURSIVE Ascending(_)
Ascending(S) ==
    IF S = {} THEN <<>> ELSE <<Min(S)>> \o Ascending(S \ {Min(S)})

\* db.Where("id IN ?", fileIDs).Find(&files): the rows in primary-key order
FindFiles(fileIDs) ==
    LET found == Ascending(Range(fileIDs) \cap DOMAIN files)
    IN [i \in DOMAIN found |-> files[found[i]]]

\* (mutant) every requester passes the permission check
hasFilePermissionAlways(userID, file) == TRUE

\* the uploader of the file, or a workflow_members row for the file's workflow
hasFilePermission(userID, file) ==
    \/ file.OwnerID = userID
    \/ <<file.WorkflowID, userID>> \in members

\* the ids of the found rows that pass hasFilePermission, in query order
validateFilePermissions(userID, fileIDs) ==
    LET Permitted(file) == hasFilePermission(userID, file)
        valid == SelectSeq(FindFiles(fileIDs), Permitted)
    IN [i \in DOMAIN valid |-> valid[i].ID]

\* zipFileName := fmt.Sprintf("%s_%d_%d.zip", TaskName, UserID, time.Now().Unix())
ZipFileNameOf(taskName, userID, t) == <<taskName, userID, t>>

\* a ZIP container on disk: the entries written so far (name and bytes, with
\* the id of the row they were read for) and whether zipWriter.Close has
\* written the central directory; linked: the path still names the file
\* (os.Remove unlinks it, descriptors that are open keep writing to it)
NewZip == [entries |-> <<>>, closed |-> FALSE, linked |-> TRUE]

\* an entry written through a descriptor that has written pos entries before
WriteEntry(zip, pos, entry) ==
    IF pos < Len(zip.entries)
    THEN [zip EXCEPT !.entries[pos + 1] = entry]
    ELSE [zip EXCEPT !.entries = Append(@, entry)]

RECURSIVE EntryBytes(_)
EntryBytes(entries) ==
    IF entries = <<>> THEN 0
    ELSE Len(Head(entries).bytes) + EntryBytes(Tail(entries))

\* zipFile.Stat().Size(): the entry data, and the central directory once closed
ZipSize(zip) ==
    EntryBytes(zip.entries) + (IF zip.closed THEN Len(zip.entries) + 1 ELSE 0)

\* a row of table "download_tasks" as db.Create stores it
TaskRow(id, userID, taskName, fileIDs) ==
    [ID |-> id, UserID |-> userID, TaskName |-> taskName, FileIDs |-> fileIDs,
     Status |-> "pending", ZipFilePath |-> <<>>, FileSize |-> 0,
     ExpiresAt |-> 0, ErrorMsg |-> "", Deleted |-> FALSE]

\* locals of one processDownloadTask goroutine
Worker(pc, todo, zip, pos) == [pc |-> pc, files |-> todo, zip |-> zip, pos |-> pos]

\* Updates{status: failed, error_msg} where id = taskID; its error is dropped
updateTaskError(taskID, errorMsg, dbOk) ==
    IF dbOk /\ taskID \in DOMAIN tasks
    THEN [tasks EXCEPT ![taskID].Status = "failed", ![taskID].ErrorMsg = errorMsg]
    ELSE tasks

\* dbOk: the queries and the insert of this call succeed
\* (mutant) an empty list of accepted ids is packaged like any other
NoValidFilesIgnored(validFileIDs) == FALSE

\* if len(validFileIDs) == 0 { return nil, "没有可下载的文件" }
NoValidFiles(validFileIDs) == Len(validFileIDs) = 0

CreateBatchDownloadTask(userID, req, dbOk) ==
    /\ requests < MaxTasks
    /\ requests' = requests + 1
    /\ UNCHANGED uvars
    /\ UNCHANGED downloadFS
    /\ LET validFileIDs == validateFilePermissions(userID, req.FileIDs)
           task == TaskRow(Len(tasks) + 1, userID, req.TaskName, validFileIDs)
           call == [UserID |-> userID, FileIDs |-> req.FileIDs, ID |-> 0,
                    Status |-> "", FileCount |-> 0]
       IN IF ~dbOk
          THEN /\ last' = Call("CreateBatchDownloadTask", FALSE, "db", call)
               /\ UNCHANGED <<tasks, workers>>
          ELSE IF NoValidFiles(validFileIDs)
          THEN /\ last' = Call("CreateBatchDownloadTask", FALSE, "no files", call)
               /\ UNCHANGED <<tasks, workers>>
          ELSE /\ tasks' = Append(tasks, task)
               \* go s.processDownloadTask(task.ID)
               /\ workers' = Put(workers, task.ID, Worker("start", <<>>, <<>>, 0))
               /\ last' = Call("CreateBatchDownloadTask", TRUE, "",
                               [call EXCEPT !.ID = task.ID,
                                            !.Status = task.Status,
                                            !.FileCount = Len(validFileIDs)])

\* processDownloadTask, line 114: Update("status", "processing"); the result of
\* the update is not looked at
ProcessStart(taskID, dbOk) ==
    /\ workers[taskID].pc = "start"
    /\ UNCHANGED uvars
    /\ UNCHANGED <<downloadFS, last, requests>>
    /\ tasks' = IF dbOk THEN [tasks EXCEPT ![taskID].Status = "processing"]
                ELSE tasks
    /\ workers' = [workers EXCEPT ![taskID].pc = "load"]

\* processDownloadTask, lines 117-156: read the task row and its files, create
\* the ZIP file.  dbOk: the two queries succeed; errOk: the update of
\* updateTaskError succeeds
ProcessLoad(taskID, dbOk, errOk) ==
    /\ workers[taskID].pc = "load"
    /\ UNCHANGED uvars
    /\ UNCHANGED <<last, requests>>
    /\ LET task == tasks[taskID]
           zipFilePath == Join(DownloadPath,
                               <<ZipFileNameOf(task.TaskName, task.UserID, now)>>)
       IN IF ~dbOk
          THEN /\ tasks' = updateTaskError(taskID, "load task", errOk)
               /\ workers' = [workers EXCEPT ![taskID].pc = "done"]
               /\ UNCHANGED downloadFS
          ELSE \* os.Create truncates a file that is already there
               /\ downloadFS' = Put(downloadFS, zipFilePath, NewZip)
               /\ workers' = [workers EXCEPT ![taskID] =
                                 Worker("pack", FindFiles(task.FileIDs),
                                        zipFilePath, 0)]
               /\ UNCHANGED tasks

\* os.Open(filePath), zipWriter.Create(fileName), io.Copy
addFileToZip(zip, pos, filePath, file) ==
    WriteEntry(zip, pos, [name |-> file.FileName, id |-> file.ID,
                          bytes |-> uploadFS[filePath]])

\* processDownloadTask, lines 161-168: one round of the loop over the files
ProcessAddFile(taskID, errOk) ==
    /\ workers[taskID].pc = "pack"
    /\ workers[taskID].files # <<>>
    /\ UNCHANGED uvars
    /\ UNCHANGED <<last, requests>>
    /\ LET w == workers[taskID]
           file == Head(w.files)
           filePath == Join(uploadPath, file.FilePath)
       IN IF filePath \notin DOMAIN uploadFS
          THEN \* os.Open fails; the ZIP file stays where it is
               /\ tasks' = updateTaskError(taskID, "add file", errOk)
               /\ workers' = [workers EXCEPT ![taskID].pc = "close"]
               /\ UNCHANGED downloadFS
          ELSE /\ downloadFS' = [downloadFS EXCEPT ![w.zip] =
                                    addFileToZip(@, w.pos, filePath, file)]
               /\ workers' = [workers EXCEPT ![taskID].files = Tail(@),
                                             ![taskID].pos = @ + 1]
               /\ UNCHANGED tasks

\* processDownloadTask, lines 171-192: zipFile.Stat and the final Updates,
\* whose result is not looked at
ProcessFinish(taskID, statOk, dbOk) ==
    /\ workers[taskID].pc = "pack"
    /\ workers[taskID].files = <<>>
    /\ UNCHANGED uvars
    /\ UNCHANGED <<downloadFS, last, requests>>
    /\ LET w == workers[taskID] IN
       tasks' = IF ~statOk THEN updateTaskError(taskID, "stat zip", dbOk)
                ELSE IF ~dbOk THEN tasks
                ELSE [tasks EXCEPT ![taskID].Status = "completed",
                                   ![taskID].ZipFilePath = w.zip,
                                   ![taskID].FileSize = ZipSize(downloadFS[w.zip]),
                                   ![taskID].ExpiresAt = now + ExpirySeconds]
    /\ workers' = [workers EXCEPT ![taskID].pc = "close"]

\* the deferred zipWriter.Close() and zipFile.Close(), run at every return
\* after os.Create
ProcessClose(taskID) ==
    /\ workers[taskID].pc = "close"
    /\ UNCHANGED uvars
    /\ UNCHANGED <<tasks, last, requests>>
    /\ downloadFS' = [downloadFS EXCEPT ![workers[taskID].zip].closed = TRUE]
    /\ workers' = [workers EXCEPT ![taskID].pc = "done"]

\* the row CompleteUpload stores for a request, and the row the instant upload
\* of a request stores next to an existing one
CompletedRow(id, req, dir) ==
    FileRow(id, req.FileName, FinalPathOf(dir, req.MD5Hash, req.FileName),
            req.FileSize, req.MD5Hash, req.UserID, req.WorkflowID)
InstantRow(id, req, existingFile) ==
    FileRow(id, req.FileName, existingFile.FilePath, existingFile.FileSize,
            existingFile.MD5Hash, req.UserID, req.WorkflowID)

\* The download service starts on what the uploads left behind: ReqA completed,
\* ReqB served by instant upload from it, ReqD completed.
InitDownload ==
    /\ now = 0
    /\ uploadSessions = <<>>
    /\ tempFS = <<>>
    /\ uploads = 0
    /\ last = NoCall
    /\ uploadPath \in UploadPaths
    /\ files = << CompletedRow(1, ReqA, uploadPath),
                  InstantRow(2, ReqB, CompletedRow(1, ReqA, uploadPath)),
                  CompletedRow(3, ReqD, uploadPath) >>
    /\ uploadFS = [p \in {files[1].FilePath, files[3].FilePath} |->
                      IF p = files[1].FilePath THEN <<1>> ELSE <<1, 2>>]
    /\ members = WorkflowMembers
    /\ tasks = <<>>
    /\ workers = <<>>
    /\ downloadFS = <<>>
    /\ requests = 0
    /\ inflight = <<>>
    /\ calls = 0
    /\ ended = NoHistory
    /\ sweeps = <<>>

NextDownload ==
    \/ \E u \in Users, req \in BatchRequests, dbOk \in BOOLEAN :
          CreateBatchDownloadTask(u, req, dbOk)
    \/ \E id \in DOMAIN workers, dbOk \in BOOLEAN : ProcessStart(id, dbOk)
    \/ \E id \in DOMAIN workers, dbOk \in BOOLEAN, errOk \in BOOLEAN :
          ProcessLoad(id, dbOk, errOk)
    \/ \E id \in DOMAIN workers, errOk \in BOOLEAN : ProcessAddFile(id, errOk)
    \/ \E id \in DOMAIN workers, statOk \in BOOLEAN, dbOk \in BOOLEAN :
          ProcessFinish(id, statOk, dbOk)
    \/ \E id \in DOMAIN workers : ProcessClose(id)

SpecDownload == InitDownload /\ [][NextDownload]_vars

\* ------------------------------------------------- expiry of download tasks
\* the readings of the clock that matter to a container created at 0: its
\* creation, the second it expires, the second after
Clock == {0, ExpirySeconds, ExpirySeconds + 1}

\* the clock moves on to a later reading
Tick(t) ==
    /\ t > now
    /\ now' = t
    /\ UNCHANGED <<uploadSessions, tempFS, uploadFS, files, uploads, last,
                   uploadPath, members, tasks, workers, downloadFS, requests,
                   inflight, calls, ended, sweeps>>

\* os.Stat(path) finds a file
ContainerExists(path) ==
    path \in DOMAIN downloadFS /\ downloadFS[path].linked

\* rows with deleted_at set are invisible to every query of the model
Visible(taskID) == taskID \in DOMAIN tasks /\ ~tasks[taskID].Deleted

\* (mutant) the sweep selects a task a second after it should
expiredTasksLate(t) ==
    {id \in DOMAIN tasks : /\ Visible(id)
                           /\ tasks[id].Status = "completed"
                           /\ tasks[id].ExpiresAt + 1 < t}

\* Where("expires_at < ? AND status = 'completed'", now)
expiredTasks(t) ==
    {id \in DOMAIN tasks : /\ Visible(id)
                           /\ tasks[id].Status = "completed"
                           /\ tasks[id].ExpiresAt < t}

\* (mutant) a container that is already gone makes the sweep fail
RemoveFailedReported(paths) == \E p \in paths : ~ContainerExists(p)

\* os.Remove(task.ZipFilePath) stands as a statement: its error is not read
RemoveFailed(paths) == FALSE

\* CleanExpiredTasks: select, os.Remove each container (result dropped),
\* soft-delete the rows.  findOk, deleteOk: the two statements succeed
CleanExpiredTasks(findOk, deleteOk) ==
    /\ UNCHANGED uvars
    /\ UNCHANGED <<workers, requests>>
    /\ IF ~findOk
       THEN /\ last' = Call("CleanExpiredTasks", FALSE, "db", <<>>)
            /\ UNCHANGED <<tasks, downloadFS>>
       ELSE LET expired == expiredTasks(now)
                paths == {tasks[id].ZipFilePath : id \in expired} \ {<<>>}
            IN /\ downloadFS' =
                      [p \in DOMAIN downloadFS |->
                          IF p \in paths
                          THEN [downloadFS[p] EXCEPT !.linked = FALSE]
                          ELSE downloadFS[p]]
               /\ tasks' = IF deleteOk
                           THEN [id \in DOMAIN tasks |->
                                    IF id \in expired
                                    THEN [tasks[id] EXCEPT !.Deleted = TRUE]
                                    ELSE tasks[id]]
                           ELSE tasks
               /\ last' = IF RemoveFailed(paths)
                          THEN Call("CleanExpiredTasks", FALSE, "remove", <<>>)
                          ELSE Call("CleanExpiredTasks", deleteOk,
                                    IF deleteOk THEN "" ELSE "db", <<>>)

\* GetDownloadTask: First where id = ? AND user_id = ?
GetDownloadTask(userID, taskID) ==
    /\ UNCHANGED uvars
    /\ UNCHANGED <<tasks, workers, downloadFS, requests>>
    /\ last' = IF Visible(taskID) /\ tasks[taskID].UserID = userID
               THEN Call("GetDownloadTask", TRUE, "",
                         [ID |-> taskID, Status |-> tasks[taskID].Status])
               ELSE Call("GetDownloadTask", FALSE, "not found",
                         [ID |-> taskID, Status |-> ""])

\* one step of the goroutine processDownloadTask(taskID) with every database
\* and storage call succeeding
WorkerStep(taskID) ==
    /\ taskID \in DOMAIN workers
    /\ \/ ProcessStart(taskID, TRUE)
       \/ ProcessLoad(taskID, TRUE, TRUE)
       \/ ProcessAddFile(taskID, TRUE)
       \/ ProcessFinish(taskID, TRUE, TRUE)
       \/ ProcessClose(taskID)

NextReliable ==
    \/ \E u \in Users, req \in BatchRequests :
          CreateBatchDownloadTask(u, req, TRUE)
    \/ \E id \in 1 .. MaxTasks : WorkerStep(id)

\* the download service on a database that never fails, every started
\* goroutine being scheduled until it returns
SpecDownloadFair ==
    /\ InitDownload
    /\ [][NextReliable]_vars
    /\ \A id \in 1 .. MaxTasks : WF_vars(WorkerStep(id))

NextReaper ==
    \/ \E u \in Users : CreateBatchDownloadTask(u, BatchReq(<<2, 4>>), TRUE)
    \/ \E id \in 1 .. MaxTasks : WorkerStep(id)
    \/ \E t \in Clock : Tick(t)
    \/ \E findOk \in BOOLEAN, deleteOk \in BOOLEAN :
          CleanExpiredTasks(findOk, deleteOk)
    \/ \E u \in Users, id \in 1 .. MaxTasks : GetDownloadTask(u, id)

\* download tasks over time: creation, packing, the sweep and status queries
SpecReaper == InitDownload /\ [][NextReaper]_vars

\* ------------------------------------------------ sweeps running together
\* CleanExpiredTasks run as a goroutine of its own, between its statements.
\* Its locals: the reading of the clock (now), the ZipFilePath values of the
\* rows the select returned (found)
Sweep(pc, t, found) == [pc |-> pc, now |-> t, found |-> found]

\* what no sweep touches
svars == <<now, uploadPath, members, uploadSessions, tempFS, uploadFS, files,
           uploads, inflight, calls, ended, workers, requests>>

\* lines 373-379: now := time.Now() and the select
SweepFind(findOk) ==
    /\ Cardinality(DOMAIN sweeps) < MaxSweeps
    /\ UNCHANGED svars
    /\ UNCHANGED <<tasks, downloadFS>>
    /\ LET k == Cardinality(DOMAIN sweeps) + 1
           paths == {tasks[id].ZipFilePath : id \in expiredTasks(now)} \ {<<>>}
       IN IF ~findOk
          THEN /\ sweeps' = Put(sweeps, k, Sweep("done", now, {}))
               /\ last' = Call("CleanExpiredTasks", FALSE, "db", <<>>)
          ELSE /\ sweeps' = Put(sweeps, k, Sweep("remove", now, paths))
               /\ UNCHANGED last

\* lines 382-386: os.Remove of every container the select returned
SweepRemove(k) ==
    /\ sweeps[k].pc = "remove"
    /\ UNCHANGED svars
    /\ UNCHANGED <<tasks, last>>
    /\ downloadFS' = [p \in DOMAIN downloadFS |->
                         IF p \in sweeps[k].found
                         THEN [downloadFS[p] EXCEPT !.linked = FALSE]
                         ELSE downloadFS[p]]
    /\ sweeps' = [sweeps EXCEPT ![k].pc = "delete"]

\* line 389: Delete with the same WHERE and the same now, on the rows as they
\* are by then
SweepDelete(k, deleteOk) ==
    /\ sweeps[k].pc = "delete"
    /\ UNCHANGED svars
    /\ UNCHANGED downloadFS
    /\ tasks' = IF deleteOk
                THEN [id \in DOMAIN tasks |->
                         IF id \in expiredTasks(sweeps[k].now)
                         THEN [tasks[id] EXCEPT !.Deleted = TRUE]
                         ELSE tasks[id]]
                ELSE tasks
    /\ last' = Call("CleanExpiredTasks", deleteOk,
                    IF deleteOk THEN "" ELSE "db", <<>>)
    /\ sweeps' = [sweeps EXCEPT ![k].pc = "done"]

NextSweep ==
    \/ \E u \in Users : CreateBatchDownloadTask(u, BatchReq(<<2, 4>>), TRUE)
    \/ \E id \in 1 .. MaxTasks : WorkerStep(id)
    \/ \E t \in Clock : Tick(t)
    \/ \E findOk \in BOOLEAN : SweepFind(findOk)
    \/ \E k \in DOMAIN sweeps : SweepRemove(k)
    \/ \E k \in DOMAIN sweeps, deleteOk \in BOOLEAN : SweepDelete(k, deleteOk)

\* packaging, the clock, and sweeps started whenever something calls them
SpecSweep == InitDownload /\ [][NextSweep]_vars

\* ---------------------------------------------------- fetching a container
\* the file names a client can ask for: <task name>_<user id>_<seconds>.zip
ZipFileNames == {ZipFileNameOf("t", u, t) : u \in Users, t \in Clock}

\* strings.Split(fileName, "_"), parts[len(parts)-2] parsed as the user id
FileUserIDOf(fileName) == fileName[Len(fileName) - 1]

\* DownloadZipFile: the user id in the name must be the caller's and the file
\* must exist; no row of download_tasks is read
DownloadZipFile(userID, fileName) ==
    /\ UNCHANGED uvars
    /\ UNCHANGED <<tasks, workers, downloadFS, requests>>
    /\ LET filePath == Join(DownloadPath, <<fileName>>)
           call == [UserID |-> userID, Path |-> filePath]
       IN last' = IF FileUserIDOf(fileName) # userID
                  THEN Call("DownloadZipFile", FALSE, "no permission", call)
                  ELSE IF ~ContainerExists(filePath)
                  THEN Call("DownloadZipFile", FALSE, "not found", call)
                  ELSE Call("DownloadZipFile", TRUE, "", call)

NextZip ==
    \/ \E u \in Users : CreateBatchDownloadTask(u, BatchReq(<<2, 4>>), TRUE)
    \/ \E id \in 1 .. MaxTasks : WorkerStep(id)
    \/ \E t \in Clock : Tick(t)
    \/ \E findOk, deleteOk \in BOOLEAN : CleanExpiredTasks(findOk, deleteOk)
    \/ \E u \in Users, n \in ZipFileNames : DownloadZipFile(u, n)

\* packaging, expiry and the clients fetching containers by name
SpecZip == InitDownload /\ [][NextZip]_vars

\* ------------------------------------------------ upload sessions over time
\* the ids InitUpload can give out at the clock's readings
StaleIDs ==
    {UploadIDOf(r.UserID, r.MD5Hash, t) : r \in ConcRequests, t \in Clock}

\* the upload calls of the clients, and the clock; the service starts no
\* goroutine and no timer of its own for upload sessions
NextStale ==
    \/ \E req \in ConcRequests : InitUpload(req)
    \/ \E id \in StaleIDs, i \in ChunkIndexes, d \in ChunkData :
          UploadChunk(id, i, d, Md5(d))
    \/ \E id \in StaleIDs : CompleteUpload(id)
    \/ \E id \in StaleIDs : CancelUpload(id)
    \/ \E t \in Clock : Tick(t)

\* time passes whatever the clients do; no client is obliged to call again
SpecStale ==
    Init /\ [][NextStale]_vars /\ WF_vars(\E t \in Clock : Tick(t))

\* ------------------------------------------------------------------ claims
SessionDir(id) == tempFS[uploadSessions[id].TempDir]

\* the rows of table "files" that carry fingerprint h and size s
EntriesOf(h, s) ==
    {i \in DOMAIN files : files[i].MD5Hash = h /\ files[i].FileSize = s}
\* the paths of the upload store whose bytes have fingerprint h
StoredCopies(h) == {p \in DOMAIN uploadFS : Md5(uploadFS[p]) = h}

\* C1: once uploads of the same fingerprint and size by two different owners
\* have both succeeded, each owner has a FileEntry for it and the upload store
\* holds exactly one physical copy of the bytes, whatever the interleaving.
C1_TwoEntriesOneCopy ==
    \A r1, r2 \in UploadRequests :
        LET E == EntriesOf(r1.MD5Hash, r1.FileSize) IN
        (/\ r1.UserID # r2.UserID
         /\ r1.MD5Hash = r2.MD5Hash /\ r1.FileSize = r2.FileSize
         /\ \E i \in E : files[i].OwnerID = r1.UserID
         /\ \E i \in E : files[i].OwnerID = r2.UserID)
        => /\ Cardinality(E) >= 2
           /\ Cardinality({files[i].FilePath : i \in E}) = 1
           /\ Cardinality(StoredCopies(r1.MD5Hash)) = 1

\* C2: a CompleteUpload that fails on the whole-file digest creates nothing:
\* table "files" is unchanged and the upload store holds no file that was not
\* there before the call.
C2_MismatchCreatesNothing ==
    [][\A id \in DOMAIN uploadSessions :
          (CompleteUpload(id) /\ last'.err = "file md5")
          => /\ files' = files
             /\ DOMAIN uploadFS' \subseteq DOMAIN uploadFS]_vars

\* chunks 0 .. n-1 of the staging directory, joined from the front
RECURSIVE ConcatFrom(_, _, _)
ConcatFrom(dir, i, n) ==
    IF i >= n THEN <<>> ELSE dir[i] \o ConcatFrom(dir, i + 1, n)

\* the staged chunks 0 .. TotalChunks-1 exist and hash to the declared digest
AssembledMatches(id) ==
    LET s == uploadSessions[id] IN
    /\ \A i \in 0 .. s.TotalChunks - 1 : i \in DOMAIN SessionDir(id)
    /\ Md5(ConcatFrom(SessionDir(id), 0, s.TotalChunks)) = s.MD5Hash

\* C3: CompleteUpload of an existing session succeeds exactly when the number of
\* received indices equals total_chunks (the assembled bytes matching the
\* declared digest); with fewer indices it fails and changes nothing.
C3_CompleteIffCountEqualsTotal ==
    [][\A id \in DOMAIN uploadSessions :
          CompleteUpload(id) =>
            LET s == uploadSessions[id]
                received == Cardinality(s.UploadedChunks)
            IN /\ last'.ok => received = s.TotalChunks
               /\ (received = s.TotalChunks /\ AssembledMatches(id)) => last'.ok
               /\ received < s.TotalChunks
                  => /\ ~last'.ok
                     /\ UNCHANGED <<uploadSessions, tempFS, uploadFS, files>>]_vars

\* C4: the received indices of every session lie in 0 .. total_chunks-1.
C4_ReceivedWithinRange ==
    \A id \in DOMAIN uploadSessions :
        uploadSessions[id].UploadedChunks
            \subseteq 0 .. uploadSessions[id].TotalChunks - 1

\* the effect of storing bytes d as chunk i of session id
ChunkStored(id, i, d) ==
    /\ id \in DOMAIN uploadSessions'
    /\ i \in uploadSessions'[id].UploadedChunks
    /\ i \in DOMAIN tempFS'[uploadSessions[id].TempDir]
    /\ tempFS'[uploadSessions[id].TempDir][i] = d

\* every session but id has the received set and the staging slots it had
OthersKept(id) ==
    \A j \in DOMAIN uploadSessions \ {id} :
        /\ j \in DOMAIN uploadSessions'
        /\ uploadSessions'[j] = uploadSessions[j]
        /\ tempFS'[uploadSessions[j].TempDir] = tempFS[uploadSessions[j].TempDir]

\* C6: an UploadChunk on a session whose checksum differs from the digest of its
\* bytes is rejected and leaves the received set and every staging slot as they
\* were; one whose checksum matches (a retry of the rejected index included)
\* succeeds, stores the bytes in the slot of its index and marks the index,
\* and leaves every other session as it was.
C6_BadChecksumRejected ==
    [][(last'.op = "UploadChunk" /\ last'.err # "no session") =>
          IF last'.ret.sum = "differ"
          THEN /\ ~last'.ok
               /\ UNCHANGED <<uploadSessions, tempFS, uploadFS, files>>
          ELSE /\ last'.ok
               /\ \E id \in DOMAIN uploadSessions :
                     /\ OthersKept(id)
                     /\ \E i \in ChunkIndexes, d \in ChunkData :
                           /\ ChunkStored(id, i, d)
                           /\ UploadChunk(id, i, d, Md5(d))]_vars

\* a chunk has just been rejected for its checksum: the session exists, and the
\* chunks it holds are the ones received before
C6_Witness ==
    /\ last.op = "UploadChunk" /\ last.err = "chunk md5"
    /\ \E id \in DOMAIN uploadSessions :
           /\ uploadSessions[id].UploadedChunks # {}
           /\ uploadSessions[id].UploadedChunks # ChunkIndexes

\* C7: UploadChunk for an index already received, with the bytes already staged
\* for it and a correct checksum, succeeds and leaves the received set, that
\* slot and every other slot unchanged.
C7_ReuploadIdempotent ==
    [][(/\ last'.op = "UploadChunk"
        /\ last'.ret.staged = "same"
        /\ last'.ret.sum = "match")
       => /\ last'.ok
          /\ UNCHANGED <<uploadSessions, tempFS, uploadFS, files>>]_vars

\* an index was uploaded again with the bytes it already had, next to another
\* received slot
C7_Witness ==
    /\ last.op = "UploadChunk" /\ last.ok /\ last.ret.staged = "same"
    /\ \E id \in DOMAIN uploadSessions :
           Cardinality(uploadSessions[id].UploadedChunks) >= 2

\* C8: whatever the order in which the chunks arrived, a successful
\* CompleteUpload stores the chunks 0 .. total_chunks-1 joined in ascending
\* index order and appends one FileEntry with the declared size and digest.
C8_MergeInIndexOrder ==
    [][\A id \in DOMAIN uploadSessions :
          (last'.op = "CompleteUpload" /\ last'.ok /\ CompleteUpload(id)) =>
            LET s == uploadSessions[id]
                row == files'[Len(files')]
            IN /\ Len(files') = Len(files) + 1
               /\ SubSeq(files', 1, Len(files)) = files
               /\ row.ID = last'.ret
               /\ row.FileSize = s.FileSize /\ row.MD5Hash = s.MD5Hash
               /\ row.OwnerID = s.UserID /\ row.FileName = s.FileName
               /\ row.FilePath \in DOMAIN uploadFS'
               /\ uploadFS'[row.FilePath] =
                      ConcatFrom(SessionDir(id), 0, s.TotalChunks)]_vars

\* a two-chunk session was completed: its row and its two stored bytes exist
C8_Witness ==
    /\ last.op = "CompleteUpload" /\ last.ok
    /\ files[last.ret].FileSize = 2
    /\ Len(uploadFS[files[last.ret].FilePath]) = 2

\* C9: InitUpload takes the instant-upload path exactly when a FileEntry (not
\* deleted) with the declared fingerprint and size exists.  On a hit it appends
\* one row for the caller that points at the existing stored path, creates no
\* session and no staging directory and returns no upload id; on a miss it
\* registers a session and appends no row.
C9_InstantUploadIffStored ==
    [][\A req \in UploadRequests :
          InitUpload(req) =>
            LET hits == {i \in DOMAIN files :
                            /\ files[i].MD5Hash = req.MD5Hash
                            /\ files[i].FileSize = req.FileSize
                            /\ ~files[i].IsDeleted}
            IN IF hits # {}
               THEN /\ last'.ret.IsSecUpload /\ last'.ret.UploadID = <<>>
                    /\ Len(files') = Len(files) + 1
                    /\ SubSeq(files', 1, Len(files)) = files
                    /\ files'[Len(files')].OwnerID = req.UserID
                    /\ files'[Len(files')].FileName = req.FileName
                    /\ files'[Len(files')].FilePath
                           \in {files[i].FilePath : i \in hits}
                    /\ UNCHANGED <<uploadSessions, tempFS, uploadFS>>
               ELSE /\ ~last'.ret.IsSecUpload
                    /\ files' = files
                    /\ last'.ret.UploadID \in DOMAIN uploadSessions'
                    /\ uploadSessions'[last'.ret.UploadID].UploadedChunks = {}
                    /\ UNCHANGED uploadFS]_vars

\* an instant upload gave a second owner a row on the stored path of the first
C9_Witness ==
    /\ last.op = "InitUpload" /\ last.ret.IsSecUpload
    /\ \E i \in DOMAIN files :
           /\ i # last.ret.ExistingFile
           /\ files[i].FilePath = files[last.ret.ExistingFile].FilePath
           /\ files[i].OwnerID # files[last.ret.ExistingFile].OwnerID

\* C5: the status of a download task changes only along pending -> processing,
\* processing -> completed and processing -> failed; completed and failed are
\* never left, also when a database update or a storage operation fails.
C5_StatusTransitions ==
    [][\A id \in DOMAIN tasks :
          \/ tasks'[id].Status = tasks[id].Status
          \/ <<tasks[id].Status, tasks'[id].Status>> \in
                 {<<"pending", "processing">>, <<"processing", "completed">>,
                  <<"processing", "failed">>}]_vars

\* the ids a container of user userID may hold: rows the user uploaded or rows
\* of a workflow the user is a member of
Accessible(userID) ==
    {id \in DOMAIN files :
        \/ files[id].OwnerID = userID
        \/ <<files[id].WorkflowID, userID>> \in members}

NoDuplicates(q) == \A i, j \in DOMAIN q : q[i] = q[j] => i = j

\* C10: CreateBatchDownloadTask stores exactly the requested ids that the
\* requester may access (own upload or workflow membership) and returns their
\* number as the accepted count; with none it creates no task.  No task row and
\* no container of a user ever holds an id outside what that user may access.
C10_OnlyPermittedReferences ==
    /\ [][\A u \in Users, req \in BatchRequests :
             (CreateBatchDownloadTask(u, req, TRUE)
                /\ last'.op = "CreateBatchDownloadTask" /\ last'.err # "db") =>
               LET allowed == Range(req.FileIDs) \cap Accessible(u) IN
               IF allowed = {}
               THEN ~last'.ok /\ tasks' = tasks
               ELSE /\ last'.ok
                    /\ Len(tasks') = Len(tasks) + 1
                    /\ tasks'[Len(tasks')].UserID = u
                    /\ Range(tasks'[Len(tasks')].FileIDs) = allowed
                    /\ NoDuplicates(tasks'[Len(tasks')].FileIDs)
                    /\ last'.ret.FileCount = Cardinality(allowed)]_vars
    /\ [](/\ \A id \in DOMAIN tasks :
                Range(tasks[id].FileIDs) \subseteq Accessible(tasks[id].UserID)
          /\ \A id \in DOMAIN workers :
                LET zip == workers[id].zip IN
                zip \in DOMAIN downloadFS =>
                  \A i \in DOMAIN downloadFS[zip].entries :
                     downloadFS[zip].entries[i].id
                         \in Accessible(tasks[id].UserID))

\* three ids were requested by a user who may access two of them; the task
\* holds the two, it completed, and its container holds two entries
C10_Witness ==
    /\ last.op = "CreateBatchDownloadTask" /\ last.ok
    /\ Len(last.ret.FileIDs) = 3 /\ last.ret.FileCount = 2
    /\ tasks[last.ret.ID].Status = "completed"
    /\ Len(tasks[last.ret.ID].FileIDs) = 2
    /\ Len(downloadFS[tasks[last.ret.ID].ZipFilePath].entries) = 2
    /\ downloadFS[tasks[last.ret.ID].ZipFilePath].closed

\* the bytes of every file the task refers to are in the upload store, at the
\* path its row records
BytesPresent(id) ==
    \A f \in Range(tasks[id].FileIDs) : files[f].FilePath \in DOMAIN uploadFS

\* C11: with the worker scheduled fairly and nothing failing, a task whose
\* files are all in the store ends completed, its container holding exactly
\* one entry per accepted reference: when its goroutine has returned, that is
\* the state of the task.
C11_DoneMeansCompleted ==
    \A id \in DOMAIN workers :
        (workers[id].pc = "done" /\ BytesPresent(id)) =>
            /\ tasks[id].Status = "completed"
            /\ tasks[id].ZipFilePath \in DOMAIN downloadFS
            /\ [i \in DOMAIN downloadFS[tasks[id].ZipFilePath].entries |->
                    downloadFS[tasks[id].ZipFilePath].entries[i].id]
                   = tasks[id].FileIDs

\* C12: a sweep that runs (without a database error) later than the expiry of
\* a completed task removes its container and its row; from then on the row
\* stays removed, the container stays absent, and GetDownloadTask for that id
\* returns the not-found error to every user, the requester included.
C12_ExpiredTaskGone ==
    /\ [][(last'.op = "CleanExpiredTasks" /\ CleanExpiredTasks(TRUE, TRUE)) =>
             \A id \in DOMAIN tasks :
                (/\ ~tasks[id].Deleted
                 /\ tasks[id].Status = "completed"
                 /\ tasks[id].ExpiresAt < now)
                => /\ tasks'[id].Deleted
                   /\ ~(ContainerExists(tasks[id].ZipFilePath))']_vars
    /\ [][\A id \in DOMAIN tasks :
             tasks[id].Deleted =>
                /\ tasks'[id].Deleted
                /\ ~(ContainerExists(tasks[id].ZipFilePath))']_vars
    /\ [][last'.op = "GetDownloadTask" =>
             \A u \in Users, id \in DOMAIN tasks :
                (tasks[id].Deleted /\ GetDownloadTask(u, id))
                => ~last'.ok /\ last'.err = "not found"]_vars

\* the requester asked for a task that a sweep had removed after its expiry
C12_Witness ==
    /\ last.op = "GetDownloadTask" /\ ~last.ok
    /\ last.ret.ID \in DOMAIN tasks
    /\ tasks[last.ret.ID].Deleted
    /\ tasks[last.ret.ID].ExpiresAt < now
    /\ tasks[last.ret.ID].ZipFilePath \in DOMAIN downloadFS
    /\ ~downloadFS[tasks[last.ret.ID].ZipFilePath].linked

\* C13: once a CompleteUpload has passed its completeness check for a session,
\* an UploadChunk for that session that starts afterwards is refused and changes
\* neither the received set nor a staging slot: no such call is ever found past
\* its write of the chunk file.
C13_LateChunkRejected ==
    \A c \in DOMAIN inflight :
        (inflight[c].op = "UploadChunk" /\ inflight[c].late)
            => inflight[c].pc # "mark"

\* C20: calls running together on the registry and on one session's received
\* set are synchronized: no interleaving has two UploadChunk calls of one
\* session both about to write session.UploadedChunks with nothing ordering
\* the two writes.
C20_NoUnsynchronizedWrite ==
    \A c \in DOMAIN inflight :
        (inflight[c].op = "UploadChunk" /\ inflight[c].pc = "mark")
            => ~Racing(c)

\* C14: a CreateBatchDownloadTask call none of whose requested ids is known and
\* accessible to the caller returns an error, stores no task row, starts no
\* packaging goroutine and leaves the download store alone.
C14_NoAccessibleNoTask ==
    [][(/\ requests' = requests + 1
        /\ last'.op = "CreateBatchDownloadTask"
        /\ Range(last'.ret.FileIDs) \cap Accessible(last'.ret.UserID) = {})
          => /\ ~last'.ok
             /\ tasks' = tasks
             /\ workers' = workers
             /\ downloadFS' = downloadFS]_vars

C14_Witness ==
    /\ last.op = "CreateBatchDownloadTask"
    /\ ~last.ok /\ last.err = "no files"
    /\ last.ret.FileIDs # <<>>
    /\ Range(last.ret.FileIDs) \cap Accessible(last.ret.UserID) = {}

\* C15: a CompleteUpload that fails on the whole-file digest leaves the session
\* registered with its received set and leaves every staging slot as it was;
\* and a CompleteUpload of a session whose required indices are all received and
\* whose staged bytes hash to the declared digest succeeds, whatever failed
\* before.
C15_MismatchKeepsSession ==
    /\ [][last'.op = "CompleteUpload" => \A id \in DOMAIN uploadSessions :
             (CompleteUpload(id) /\ last'.err = "file md5")
             => /\ id \in DOMAIN uploadSessions'
                /\ uploadSessions'[id] = uploadSessions[id]
                /\ tempFS' = tempFS]_vars
    /\ [][last'.op = "CompleteUpload" => \A id \in DOMAIN uploadSessions :
             (/\ CompleteUpload(id)
              /\ 0 .. uploadSessions[id].TotalChunks - 1
                     \subseteq uploadSessions[id].UploadedChunks
              /\ AssembledMatches(id))
             => /\ last'.ok
                /\ files' # files
                /\ files'[Len(files')].MD5Hash = uploadSessions[id].MD5Hash]_vars

\* a session just refused for its digest, still registered and fully received
C15_Witness ==
    /\ last.op = "CompleteUpload" /\ last.err = "file md5"
    /\ \E id \in DOMAIN uploadSessions :
          /\ 0 .. uploadSessions[id].TotalChunks - 1
                 \subseteq uploadSessions[id].UploadedChunks
          /\ uploadSessions[id].TotalChunks > 0
          /\ ~AssembledMatches(id)

\* C16: on the path that opens a session, total_chunks is the ceiling of
\* size / chunk_size, the least n >= 1 with n * chunk_size >= size, for every
\* declared size and chunk size InitUpload accepts, and the session keeps the
\* requested chunk size.
C16_TotalChunksIsCeiling ==
    (last.op = "InitUpload" /\ ~last.ret.IsSecUpload)
    => LET session == uploadSessions[last.ret.UploadID]
           n == last.ret.TotalChunks
       IN /\ n >= 1
          /\ n * session.ChunkSize >= session.FileSize
          /\ \A m \in 1 .. n - 1 : m * session.ChunkSize < session.FileSize

\* C17: in every state the bytes stored where a files row points hash to the
\* row's fingerprint; bytes stored by a successful CompleteUpload are not
\* changed by any later InitUpload, UploadChunk, CompleteUpload or CancelUpload.
C17_StoredBytesMatchFingerprint ==
    \A f \in DOMAIN files :
        /\ files[f].FilePath \in DOMAIN uploadFS
        /\ Md5(uploadFS[files[f].FilePath]) = files[f].MD5Hash

\* C18: whenever a task reads completed, its container is already written and
\* closed, the recorded size is the size of the container file, the recorded
\* location is that file, and the expiry is the completion time plus 24 hours.
C18_CompletedMeansFinal ==
    \A id \in DOMAIN tasks :
        tasks[id].Status = "completed"
        => /\ tasks[id].ZipFilePath \in DOMAIN downloadFS
           /\ downloadFS[tasks[id].ZipFilePath].closed
           /\ tasks[id].FileSize = ZipSize(downloadFS[tasks[id].ZipFilePath])
           /\ tasks[id].ExpiresAt = now + ExpirySeconds

\* C19: a task whose packaging failed after its container file was created is
\* failed with a non-empty error detail and its partial container is removed:
\* no failed task has a container file in the download store.
C19_FailedLeavesNoContainer ==
    \A id \in DOMAIN tasks :
        tasks[id].Status = "failed"
        => /\ tasks[id].ErrorMsg # ""
           /\ (id \in DOMAIN workers /\ workers[id].zip # <<>>)
                  => ~ContainerExists(workers[id].zip)

\* C28: an InitUpload that opens a session returns an id that no session in the
\* registry has at that moment, so a new session never replaces an existing one
\* or shares its staging directory, also for the same user and fingerprint
\* within one clock second.
C28_FreshSessionID ==
    [][(last'.op = "InitUpload" /\ uploads' = uploads + 1
        /\ ~last'.ret.IsSecUpload)
          => last'.ret.UploadID \notin DOMAIN uploadSessions]_vars

\* C21: once CancelUpload has returned for a session, an UploadChunk that had
\* looked the session up before leaves no staging file behind: when such a call
\* is past its write, the chunk file it wrote is not in the staging store.
C21_CancelledChunkLeavesNothing ==
    \A c \in DOMAIN inflight :
        (/\ inflight[c].op = "UploadChunk"
         /\ inflight[c].orphan = "cancel"
         /\ inflight[c].pc = "mark")
        => ~(/\ inflight[c].session.TempDir \in DOMAIN tempFS
             /\ inflight[c].chunkIndex
                    \in DOMAIN tempFS[inflight[c].session.TempDir])

\* C27: one upload session yields at most one files row: a CompleteUpload call
\* whose session another CompleteUpload call has already finalized does not
\* succeed and stores no row, however the two calls interleave.
C27_OneFileEntryPerSession ==
    [][\A c \in DOMAIN inflight :
          (/\ inflight[c].op = "CompleteUpload"
           /\ inflight[c].orphan = "complete"
           /\ c \notin DOMAIN inflight')
          => ~(last'.op = "CompleteUpload" /\ last'.ok /\ files' # files)]_vars

\* C22: a successful CompleteUpload removes the session and its staging
\* directory, and a finalized or cancelled session id is terminal: every later
\* UploadChunk, CompleteUpload and CancelUpload for it returns the
\* session-not-found error and changes nothing.
C22_EndedIsTerminal ==
    /\ [][last'.ok /\ last'.op \in {"CompleteUpload", "CancelUpload"}
            => \A id \in ended'.ids \ ended.ids :
                  /\ id \notin DOMAIN uploadSessions'
                  /\ uploadSessions[id].TempDir \notin DOMAIN tempFS']_vars
    /\ [][last'.op \in {"UploadChunk", "CompleteUpload", "CancelUpload"}
            => \A id \in ended.ids :
                  (\/ \E i \in ChunkIndexes, d \in ChunkData, m \in ChunkMd5s :
                         UploadChunk(id, i, d, m)
                   \/ CompleteUpload(id)
                   \/ CancelUpload(id))
                  => /\ last'.err = "no session"
                     /\ UNCHANGED <<uploadSessions, tempFS, uploadFS,
                                    files>>]_vars

\* C26: every upload session is eventually destroyed: a session that is neither
\* finalized nor cancelled leaves the registry once it has become stale (the
\* clients have stopped calling and time goes on), so no session stays
\* registered forever.
C26_SessionEventuallyDestroyed ==
    \A id \in StaleIDs :
        <>[][last' = last]_vars
            => ((id \in DOMAIN uploadSessions)
                    ~> (id \notin DOMAIN uploadSessions))

\* C29: for a files row stored by CompleteUpload, the path processDownloadTask
\* opens to read its bytes (the upload path joined with the stored path) is the
\* path CompleteUpload wrote the bytes to, whatever upload path is configured.
C29_OpenedPathIsWrittenPath ==
    \A id \in DOMAIN workers :
        (workers[id].pc = "pack" /\ workers[id].files # <<>>)
        => LET file == Head(workers[id].files) IN
           file.FilePath = FinalPathOf(uploadPath, file.MD5Hash, file.FileName)
           => Join(uploadPath, file.FilePath) = file.FilePath

\* C30: DownloadZipFile hands a container path only to the user who requested
\* the task and only while the task is completed: not to another user, and not
\* for a task that is processing, failed or removed by CleanExpiredTasks.
C30_ZipOnlyForCompletedOwner ==
    (last.op = "DownloadZipFile" /\ last.ok)
    => \E id \in DOMAIN tasks :
          /\ Visible(id)
          /\ tasks[id].UserID = last.ret.UserID
          /\ tasks[id].Status = "completed"
          /\ tasks[id].ZipFilePath = last.ret.Path

\* C24: CleanExpiredTasks is idempotent and tolerates missing containers: a
\* sweep returns no error and removes every completed expired task, also one
\* whose container file is already gone; after it nothing is left to sweep, and
\* a sweep that finds nothing leaves tasks and containers exactly as they were.
C24_SweepIdempotent ==
    /\ [][(last'.op = "CleanExpiredTasks" /\ CleanExpiredTasks(TRUE, TRUE))
            => /\ last'.ok
               /\ \A id \in expiredTasks(now) : tasks'[id].Deleted
               /\ expiredTasks(now)' = {}]_vars
    /\ [][(/\ last'.op = "CleanExpiredTasks"
           /\ CleanExpiredTasks(TRUE, TRUE)
           /\ expiredTasks(now) = {})
            => /\ last'.ok
               /\ tasks' = tasks
               /\ downloadFS' = downloadFS]_vars

\* a sweep has removed two tasks that named one container file: for one of
\* them the file was already gone
C24_Witness ==
    /\ last.op = "CleanExpiredTasks" /\ last.ok
    /\ \E id1, id2 \in DOMAIN tasks :
          /\ id1 # id2
          /\ tasks[id1].Deleted /\ tasks[id2].Deleted
          /\ tasks[id1].ZipFilePath = tasks[id2].ZipFilePath
          /\ ~ContainerExists(tasks[id1].ZipFilePath)

\* the container file of a task: the recorded one, else the one its goroutine
\* created
ContainerOf(id) ==
    IF tasks[id].ZipFilePath # <<>> THEN tasks[id].ZipFilePath
    ELSE IF id \in DOMAIN workers THEN workers[id].zip ELSE <<>>

\* C25: CleanExpiredTasks removes only tasks that are completed with an expiry
\* before the sweep time: every other task (pending, processing, failed, or
\* completed and not yet expired) keeps its record and its container unchanged.
C25_SweepTouchesOnlyExpired ==
    [][(/\ last'.op = "CleanExpiredTasks"
        /\ \E findOk, deleteOk \in BOOLEAN : CleanExpiredTasks(findOk, deleteOk))
         => \A id \in DOMAIN tasks :
               (/\ Visible(id)
                /\ ~(tasks[id].Status = "completed" /\ tasks[id].ExpiresAt < now))
               => /\ tasks'[id] = tasks[id]
                  /\ ContainerOf(id) \in DOMAIN downloadFS
                        => downloadFS'[ContainerOf(id)]
                               = downloadFS[ContainerOf(id)]]_vars

\* C23: at most one CleanExpiredTasks sweep is executing at any time: a second
\* sweep invoked while one is between its select, its removals and its delete
\* does not run its own steps among them.
C23_OneSweepAtATime ==
    Cardinality({k \in DOMAIN sweeps : sweeps[k].pc \in {"remove", "delete"}})
        <= 1
====
